---- MODULE Spec2Model ----
(***************************************************************************)
(* Render3D, src/main.ts: module start-up (GPU set-up, three texture       *)
(* loads with checkerboard fallback), the keydown / keyup listeners that   *)
(* spawn cubes, and the requestAnimationFrame-driven frame callback.       *)
(*                                                                         *)
(* Numbers.  Times are integer milliseconds, dt is integer microseconds.   *)
(* Math.random() yields k / RandDen for a k in 0 .. RandDen-1; a cube's    *)
(* tx, ty, tz are stored as numerators over RandDen and its s as a         *)
(* numerator over 2 * RandDen, so that the arithmetic of the spawn handler *)
(* is exact.  Matrices are symbolic: a model matrix is the ordered product *)
(* of the factors "T", "R", "S" together with the parameters it was built  *)
(* from.  Rotation angles and speeds (sines and cosines of random phases)  *)
(* and the camera (module ./camera) are not represented.                   *)
(***************************************************************************)
EXTENDS Integers, Sequences, FiniteSets, TLC

VARIABLES
    pc,           \* position of the module's top-level code
    textures,     \* texture, texture1, texture2 (lines 213-215)
    outcome,      \* what the texture provider answered for each slot
    fetchCount,   \* number of fetch() calls issued for each slot
    keys,         \* const keys = new Set<string>()
    cubes,        \* const cubes: CubeState[]
    modelState,   \* the primary cube
    lastTime,     \* let lastTime (ms)
    dt,           \* dt of the most recent frame (microseconds)
    cmds,         \* GPU work submitted by the most recent frame, in program order
    rafPending,   \* frame callbacks queued with requestAnimationFrame
    rafId,        \* handle returned by the latest requestAnimationFrame, modulo RafWrap
    nBuffers,     \* GPUBuffers created by the device so far
    nBindGroups   \* GPUBindGroups created by the device so far

vars == <<pc, textures, outcome, fetchCount, keys, cubes, modelState, lastTime,
          dt, cmds, rafPending, rafId, nBuffers, nBindGroups>>

(***************************************************************************)
(* Bounds of the model.                                                    *)
(***************************************************************************)
MaxCubes == 2
RandDen == 4
RafWrap == 2

\* keys the environment presses
Keys == {"w", "x", "1", "2", "3"}
SpawnKeys == {"x"}
\* numerators k of the values k / RandDen that Math.random() returns
RandCoarse == {1}
RandEdges == {0, RandDen - 1}
AllRand == RandCoarse \cup RandEdges
\* frame timestamps handed to the callback (ms)
TimeStamps == {0, 16, 50}
TimeOnce == {0}
AllTimeStamps == TimeStamps \cup TimeOnce
\* answers of the texture provider
Outcomes == {"ok", "fetchError", "httpError", "decodeError"}
OutcomesCoarse == {"ok", "httpError"}
OutcomesOk == {"ok"}
Slots == 0 .. 2

(***************************************************************************)
(* Program constants.                                                      *)
(***************************************************************************)
DtClamp == 33000
CheckerW == 128
CheckerH == 128
TileShift == 4
Light == 230
Dark == 35
Opaque == 255
vertexCount == 36
ImageSide == 256

\* an optional GPU handle that is still undefined
NoHandle == [id |-> 0]
NoTexture == [kind |-> "none"]
vertexBuffer == [id |-> 1]
uniformBuffer == [id |-> 2]
\* const bindGroup (lines 224-231): uniformBuffer, sampler, view of texture
bindGroup == [id |-> 1, buffer |-> uniformBuffer, view |-> 0]

excludeKeys == {"w", "W", "a", "A", "s", "S", "d", "D",
                "ArrowUp", "ArrowDown", "ArrowLeft", "ArrowRight",
                "q", "Q", "e", "E"}

urls == <<"/textures/Negro.avif", "/textures/Ladrillo.webp", "/textures/Metal.avif">>

(***************************************************************************)
(* Integer helpers for the bit operations of the fallback generator.       *)
(***************************************************************************)
RECURSIVE Pow2(_)
Pow2(n) == IF n = 0 THEN 1 ELSE 2 * Pow2(n - 1)

ShiftRight(x, n) == x \div Pow2(n)
LowBit(x) == x % 2
Xor1(a, b) == (a + b) % 2

(***************************************************************************)
(* loadTextureOrCheckerboard: the pixel the catch branch writes at (x, y). *)
(***************************************************************************)
CheckerPixelShift3(x, y) ==
    LET checker == Xor1(LowBit(ShiftRight(x, 3)), LowBit(ShiftRight(y, 3)))
        c == IF checker # 0 THEN Light ELSE Dark
    IN  <<c, c, c, Opaque>>

CheckerPixel(x, y) ==
    LET checker == Xor1(LowBit(ShiftRight(x, TileShift)), LowBit(ShiftRight(y, TileShift)))
        c == IF checker # 0 THEN Light ELSE Dark
    IN  <<c, c, c, Opaque>>

\* the texture the function resolves to when the provider answers o
loadTextureOrCheckerboard(url, o) ==
    IF o = "ok"
    THEN [kind |-> "image", src |-> url, w |-> ImageSide, h |-> ImageSide]
    ELSE [kind |-> "checker", src |-> "generated", w |-> CheckerW, h |-> CheckerH]

\* pixel (x, y) of a texture made by the catch branch
TexturePixel(tex, x, y) == IF tex.kind = "checker" THEN CheckerPixel(x, y) ELSE <<>>

(***************************************************************************)
(* Start-up.                                                               *)
(***************************************************************************)
Init ==
    /\ pc = "boot"
    /\ textures = [i \in Slots |-> NoTexture]
    /\ outcome = [i \in Slots |-> "none"]
    /\ fetchCount = [i \in Slots |-> 0]
    /\ keys = {}
    /\ cubes = <<>>
    /\ modelState = [tx |-> 0, ty |-> 0, tz |-> 0, s |-> 2 * RandDen, order |-> "TRS"]
    /\ lastTime = 0
    /\ dt = 0
    /\ cmds = <<>>
    /\ rafPending = 0
    /\ rafId = 0
    /\ nBuffers = 0
    /\ nBindGroups = 0

\* lines 8-148: adapter, device, context, vertex and uniform buffer, pipeline
boot(gpuOk) ==
    /\ pc = "boot"
    /\ IF gpuOk
       THEN /\ pc' = "tex0"
            /\ nBuffers' = uniformBuffer.id
       ELSE /\ pc' = "aborted"
            /\ UNCHANGED nBuffers
    /\ UNCHANGED <<textures, outcome, fetchCount, keys, cubes, modelState, lastTime,
                   dt, cmds, rafPending, rafId, nBindGroups>>

SlotPc(i) == IF i = 0 THEN "tex0" ELSE IF i = 1 THEN "tex1" ELSE "tex2"
AfterSlot(i) == IF i = 0 THEN "tex1" ELSE IF i = 1 THEN "tex2" ELSE "setup"

\* lines 213-215: one awaited call of loadTextureOrCheckerboard
loadTexture(i, o) ==
    /\ pc = SlotPc(i)
    /\ fetchCount' = [fetchCount EXCEPT ![i] = @ + 1]
    /\ outcome' = [outcome EXCEPT ![i] = o]
    /\ textures' = [textures EXCEPT ![i] = loadTextureOrCheckerboard(urls[i + 1], o)]
    /\ pc' = AfterSlot(i)
    /\ UNCHANGED <<keys, cubes, modelState, lastTime, dt, cmds, rafPending, rafId,
                   nBuffers, nBindGroups>>

requestAnimationFrameNone(pending) == pending

requestAnimationFrame(pending) == pending + 1

\* lines 217-433 after the textures: sampler, bind group, listeners, first rAF
setup(now0) ==
    /\ pc = "setup"
    /\ nBindGroups' = bindGroup.id
    /\ lastTime' = now0
    /\ rafPending' = requestAnimationFrame(rafPending)
    /\ rafId' = (rafId + 1) % RafWrap
    /\ pc' = "running"
    /\ UNCHANGED <<textures, outcome, fetchCount, keys, cubes, modelState, dt, cmds,
                   nBuffers>>

(***************************************************************************)
(* keydown / keyup listeners (lines 278-322).                              *)
(***************************************************************************)
createCubeBindGroupSkipped(cube) == cube

\* lines 257-275: a fresh uniform buffer and a bind group over it
createCubeBindGroup(cube) ==
    LET uniBuffer == [id |-> nBuffers + 1]
        bGroup == [id |-> nBindGroups + 1, buffer |-> uniBuffer, view |-> cube.textureView]
    IN  [cube EXCEPT !.uniformBuffer = uniBuffer, !.bindGroup = bGroup]

newCubeInherit(rTex, rTx, rTy, rTz, rS) ==
    [tx |-> (2 * rTx - RandDen) * 25,
     ty |-> (2 * rTy - RandDen) * 25,
     tz |-> (2 * rTz - RandDen) * 25,
     s |-> 3 * rS + RandDen,
     order |-> modelState.order,
     textureView |-> (rTex * 3) \div RandDen,
     uniformBuffer |-> NoHandle,
     bindGroup |-> NoHandle]

newCubeWide(rTex, rTx, rTy, rTz, rS) ==
    [tx |-> (2 * rTx - RandDen) * 50,
     ty |-> (2 * rTy - RandDen) * 25,
     tz |-> (2 * rTz - RandDen) * 25,
     s |-> 3 * rS + RandDen,
     order |-> "TRS",
     textureView |-> (rTex * 3) \div RandDen,
     uniformBuffer |-> NoHandle,
     bindGroup |-> NoHandle]

\* lines 287-314.  r = k / RandDen:
\*   (r - 0.5) * 50 = (2k - RandDen) * 25 / RandDen
\*   r * 1.5 + 0.5  = (3k + RandDen) / (2 * RandDen)
\*   floor(r * 3)   = (3k) div RandDen
newCube(rTex, rTx, rTy, rTz, rS) ==
    [tx |-> (2 * rTx - RandDen) * 25,
     ty |-> (2 * rTy - RandDen) * 25,
     tz |-> (2 * rTz - RandDen) * 25,
     s |-> 3 * rS + RandDen,
     order |-> "TRS",
     textureView |-> (rTex * 3) \div RandDen,
     uniformBuffer |-> NoHandle,
     bindGroup |-> NoHandle]

keydown(key, rTex, rTx, rTy, rTz, rS) ==
    /\ pc = "running"
    /\ keys' = keys \cup {key}
    /\ IF key \in excludeKeys
       THEN UNCHANGED <<cubes, nBuffers, nBindGroups>>
       ELSE /\ Len(cubes) < MaxCubes
            /\ cubes' = Append(cubes, createCubeBindGroup(newCube(rTex, rTx, rTy, rTz, rS)))
            /\ nBuffers' = nBuffers + 1
            /\ nBindGroups' = nBindGroups + 1
    /\ UNCHANGED <<pc, textures, outcome, fetchCount, modelState, lastTime, dt, cmds,
                   rafPending, rafId>>

keyup(key) ==
    /\ pc = "running"
    /\ keys' = keys \ {key}
    /\ UNCHANGED <<pc, textures, outcome, fetchCount, cubes, modelState, lastTime, dt,
                   cmds, rafPending, rafId, nBuffers, nBindGroups>>

(***************************************************************************)
(* The frame callback (lines 339-431).                                     *)
(***************************************************************************)
Min2(a, b) == IF a <= b THEN a ELSE b

frameDtUnclamped(now, last) == (now - last) * 1000

\* line 367, in microseconds
frameDt(now, last) == Min2(DtClamp, (now - last) * 1000)

updateModelStateFirstWins(ms) ==
    LET o3 == IF "3" \in keys THEN "SRT" ELSE ms.order
        o2 == IF "2" \in keys THEN "RTS" ELSE o3
        o1 == IF "1" \in keys THEN "TRS" ELSE o2
    IN  [ms EXCEPT !.order = o1]

\* lines 339-344: three assignments in sequence
updateModelState(ms) ==
    LET o1 == IF "1" \in keys THEN "TRS" ELSE ms.order
        o2 == IF "2" \in keys THEN "RTS" ELSE o1
        o3 == IF "3" \in keys THEN "SRT" ELSE o2
    IN  [ms EXCEPT !.order = o3]

buildModelMatrixFixed(cube) ==
    [product |-> <<"T", "R", "S">>,
     tx |-> cube.tx, ty |-> cube.ty, tz |-> cube.tz, s |-> cube.s]

\* lines 346-362
buildModelMatrix(cube) ==
    [product |-> CASE cube.order = "TRS" -> <<"T", "R", "S">>
                   [] cube.order = "RTS" -> <<"R", "T", "S">>
                   [] cube.order = "SRT" -> <<"S", "R", "T">>
                   [] OTHER -> <<"T", "R", "S">>,
     tx |-> cube.tx, ty |-> cube.ty, tz |-> cube.tz, s |-> cube.s]

\* mat4.multiply(vp, model)
Mvp(model) == [vp |-> "proj*view", model |-> model]

writeBuffer(buffer, data) == [op |-> "writeBuffer", buffer |-> buffer, data |-> data]
setBindGroup(group) == [op |-> "setBindGroup", group |-> group]
draw(count) == [op |-> "draw", count |-> count]

\* lines 395-396
passHeader == <<[op |-> "setPipeline"], [op |-> "setVertexBuffer", buffer |-> vertexBuffer]>>

\* lines 405-409
drawPrimary(ms) ==
    <<writeBuffer(uniformBuffer, Mvp(buildModelMatrix(ms))),
      setBindGroup(bindGroup),
      draw(vertexCount)>>

\* line 420
hasResources(cube) == cube.uniformBuffer # NoHandle /\ cube.bindGroup # NoHandle

\* lines 418-424, one iteration
drawCube(cube) ==
    IF hasResources(cube)
    THEN <<writeBuffer(cube.uniformBuffer, Mvp(buildModelMatrix(cube))),
           setBindGroup(cube.bindGroup),
           draw(vertexCount)>>
    ELSE <<>>

RECURSIVE drawCubesReversed(_)
drawCubesReversed(list) ==
    IF list = <<>> THEN <<>> ELSE drawCubesReversed(Tail(list)) \o drawCube(Head(list))

\* lines 412-425: for (const cube of cubes)
RECURSIVE drawCubes(_)
drawCubes(list) ==
    IF list = <<>> THEN <<>> ELSE drawCube(Head(list)) \o drawCubes(Tail(list))

frame(now) ==
    /\ pc = "running"
    /\ rafPending >= 1
    /\ now >= lastTime
    /\ dt' = frameDt(now, lastTime)
    /\ lastTime' = now
    /\ modelState' = updateModelState(modelState)
    /\ cmds' = passHeader \o drawPrimary(modelState') \o drawCubes(cubes)
    /\ rafPending' = requestAnimationFrame(rafPending - 1)
    /\ rafId' = (rafId + 1) % RafWrap
    /\ UNCHANGED <<pc, textures, outcome, fetchCount, keys, cubes, nBuffers, nBindGroups>>

(***************************************************************************)
(* Specifications.                                                         *)
(***************************************************************************)
Boot == \E gpuOk \in BOOLEAN : boot(gpuOk)
Load == \E i \in Slots, o \in Outcomes : loadTexture(i, o)
LoadCoarse == \E i \in Slots, o \in OutcomesCoarse : loadTexture(i, o)
LoadOk == \E i \in Slots, o \in OutcomesOk : loadTexture(i, o)
Setup == \E now0 \in TimeOnce : setup(now0)
KeyDown == \E key \in Keys, rTex \in RandCoarse, rTx \in RandCoarse, rTy \in RandCoarse,
              rTz \in RandCoarse, rS \in RandCoarse : keydown(key, rTex, rTx, rTy, rTz, rS)
KeyDownEdges == \E key \in SpawnKeys, rTex \in RandCoarse, rTx \in RandEdges, rTy \in RandEdges,
                   rTz \in RandEdges, rS \in RandEdges : keydown(key, rTex, rTx, rTy, rTz, rS)
KeyUp == \E key \in Keys : keyup(key)
KeyUpSpawn == \E key \in SpawnKeys : keyup(key)
Frame == \E now \in TimeStamps : frame(now)
FrameOnce == \E now \in TimeOnce : frame(now)

\* the whole program, coarse inputs
Next == Boot \/ LoadCoarse \/ Setup \/ KeyDown \/ KeyUp \/ Frame
Spec == Init /\ [][Next]_vars

\* start-up under every answer of the texture provider
NextLoad == Boot \/ Load \/ Setup \/ FrameOnce
SpecLoad == Init /\ [][NextLoad]_vars

\* spawning with the translation and scale draws of Math.random() at their extremes
NextSpawn == Boot \/ LoadOk \/ Setup \/ KeyDownEdges \/ KeyUpSpawn \/ FrameOnce
SpecSpawn == Init /\ [][NextSpawn]_vars

\* the host scheduler runs a queued frame callback eventually
SpecFair == Init /\ [][Next]_vars /\ WF_vars(Frame)

(***************************************************************************)
(* Vocabulary of the properties.                                           *)
(***************************************************************************)
\* a step of the frame callback, of the keydown listener for one key, of keyup
FrameStep == \E now \in AllTimeStamps : frame(now)
KeyDownOf(key) ==
    \E rTex \in AllRand, rTx \in AllRand, rTy \in AllRand, rTz \in AllRand, rS \in AllRand :
        keydown(key, rTex, rTx, rTy, rTz, rS)
KeyUpStep == \E key \in Keys : keyup(key)

ToggleKeys == {"1", "2", "3"}
\* the reserved set as the specification describes it
ReservedKeys == excludeKeys \cup ToggleKeys

\* the composition order a model matrix was built with
OrderOf(model) ==
    IF model.product = <<"T", "R", "S">> THEN "TRS"
    ELSE IF model.product = <<"R", "T", "S">> THEN "RTS"
    ELSE IF model.product = <<"S", "R", "T">> THEN "SRT"
    ELSE "other"

DrawIdx(c) == {i \in 1 .. Len(c) : c[i].op = "draw"}
WriteIdx(c) == {i \in 1 .. Len(c) : c[i].op = "writeBuffer"}

(***************************************************************************)
(* C1.  A key-down for a key of the reserved set (movement and camera     *)
(* keys, and the order-toggle keys "1", "2", "3") adds the key to the      *)
(* held set and leaves the object sequence exactly as it was.              *)
(***************************************************************************)
C1_ReservedKeyNeverSpawns ==
    [][\A key \in Keys \cap ReservedKeys :
          KeyDownOf(key) => (key \in keys' /\ cubes' = cubes)]_vars

(***************************************************************************)
(* C2 as stated.  In the work of every frame, the model matrix of the      *)
(* primary object and of every spawned object is built with one and the    *)
(* same order, the current global order.                                   *)
(***************************************************************************)
C2_UniformGlobalOrder ==
    \A i \in WriteIdx(cmds) : OrderOf(cmds[i].data.model) = modelState.order

(***************************************************************************)
(* C2 amended.  The toggle keys select the order of the primary object     *)
(* only: in every frame the primary object's model matrix is built with    *)
(* the current global order, and every spawned object's model matrix is    *)
(* built with that object's own order, which is TRS.                       *)
(***************************************************************************)
C2_OrderPerObject ==
    /\ \A i \in WriteIdx(cmds) :
          IF cmds[i].buffer = uniformBuffer
          THEN OrderOf(cmds[i].data.model) = modelState.order
          ELSE OrderOf(cmds[i].data.model) = "TRS"
    /\ \A j \in 1 .. Len(cubes) : cubes[j].order = "TRS"
    /\ cmds # <<>> => \E i \in WriteIdx(cmds) : cmds[i].buffer = uniformBuffer

C2_Witness ==
    /\ modelState.order = "RTS"
    /\ Cardinality(WriteIdx(cmds)) >= 2

(***************************************************************************)
(* C3.  The object sequence changes only by appending.  A key-down for a   *)
(* non-reserved key, held already or not, appends exactly one object whose *)
(* scale is in [0.5, 2.0) and whose translation components are in          *)
(* [-25, 25]; key-up and frames leave the sequence as it is; no step       *)
(* removes or reorders an object.                                          *)
(***************************************************************************)
InSpawnRanges(cube) ==
    /\ \A t \in {cube.tx, cube.ty, cube.tz} : -25 * RandDen <= t /\ t <= 25 * RandDen
    /\ RandDen <= cube.s
    /\ cube.s < 4 * RandDen

C3_AppendOnly ==
    [][/\ \A key \in Keys \ ReservedKeys :
             KeyDownOf(key) =>
                 /\ Len(cubes') = Len(cubes) + 1
                 /\ SubSeq(cubes', 1, Len(cubes)) = cubes
                 /\ InSpawnRanges(cubes'[Len(cubes')])
       /\ KeyUpStep => cubes' = cubes
       /\ FrameStep => Len(cubes') = Len(cubes)
       /\ Len(cubes') >= Len(cubes)
       /\ SubSeq(cubes', 1, Len(cubes)) = cubes]_vars

C3_Witness ==
    /\ Len(cubes) = 2
    /\ "x" \in keys
    /\ cubes[1].s = RandDen
    /\ cubes[2].s = 3 * (RandDen - 1) + RandDen
    /\ cubes[2].tx = -25 * RandDen
    /\ cubes[2].ty = (RandDen - 2) * 25
    /\ cmds # <<>>

(***************************************************************************)
(* C4 as stated.  In every frame dt is the smaller of the time since the   *)
(* previous timestamp and 1/30 s.  (30 * dt is compared with 30 * elapsed  *)
(* and with one second, in microseconds.)                                  *)
(***************************************************************************)
C4_ClampThirtieth ==
    [][\A now \in AllTimeStamps :
          frame(now) =>
              30 * dt' = IF 30 * (now - lastTime) * 1000 <= 1000000
                         THEN 30 * (now - lastTime) * 1000
                         ELSE 1000000]_vars

(***************************************************************************)
(* C4 amended.  In every frame dt is the smaller of the time since the     *)
(* previous timestamp and 0.033 s: it is never negative and never above    *)
(* 0.033 s, and for the timestamps 0 ms and 50 ms it is 0.033 s, not       *)
(* 0.05 s.                                                                 *)
(***************************************************************************)
C4_ClampCeiling ==
    [][\A now \in AllTimeStamps :
          frame(now) =>
              /\ dt' = IF (now - lastTime) * 1000 <= 33000
                       THEN (now - lastTime) * 1000
                       ELSE 33000
              /\ 0 <= dt'
              /\ dt' <= 33000
              /\ (lastTime = 0 /\ now = 50) => (dt' = 33000 /\ dt' # 50000)]_vars

C4_Witness ==
    /\ lastTime = 50
    /\ dt = 33000
    /\ cmds # <<>>

(***************************************************************************)
(* C5.  A frame issues exactly one draw call per live object and no        *)
(* others: the primary object first, then the spawned objects in spawn     *)
(* order, n + 1 draws for n spawned objects, each draw preceded by the     *)
(* binding of that object's own draw-binding and by the upload of that     *)
(* object's own model-view-projection matrix to its own uniform storage.   *)
(* The objects are those present when the frame runs, so an object spawned *)
(* between two frames is drawn by the next one, after all earlier objects. *)
(***************************************************************************)
\* the objects a frame has to draw: the primary object as the frame leaves it, then cubes
SceneObject(j) ==
    IF j = 1
    THEN [state |-> modelState', uniformBuffer |-> uniformBuffer, bindGroup |-> bindGroup]
    ELSE [state |-> cubes[j - 1], uniformBuffer |-> cubes[j - 1].uniformBuffer,
          bindGroup |-> cubes[j - 1].bindGroup]

C5_OneDrawPerObjectInOrder ==
    [][FrameStep =>
          /\ Cardinality(DrawIdx(cmds')) = Len(cubes) + 1
          /\ Len(cmds') = 2 + 3 * (Len(cubes) + 1)
          /\ \A j \in 1 .. Len(cubes) + 1 :
                LET p == 2 + 3 * j
                    obj == SceneObject(j)
                IN  /\ cmds'[p] = [op |-> "draw", count |-> vertexCount]
                    /\ cmds'[p - 1] = [op |-> "setBindGroup", group |-> obj.bindGroup]
                    /\ cmds'[p - 2].op = "writeBuffer"
                    /\ cmds'[p - 2].buffer = obj.uniformBuffer
                    /\ cmds'[p - 2].data = Mvp(buildModelMatrix(obj.state))
                    /\ obj.bindGroup.buffer = obj.uniformBuffer
          /\ cubes' = cubes]_vars

C5_Witness ==
    /\ Len(cubes) = 2
    /\ Cardinality(DrawIdx(cmds)) = 3
    /\ cmds[Len(cmds) - 1].group = cubes[2].bindGroup

(***************************************************************************)
(* C6.  A frame sets the global order from the held toggle keys, checked   *)
(* in the order 1, 2, 3 with the last check winning: SRT if "3" is held,   *)
(* otherwise RTS if "2" is held, otherwise TRS if "1" is held, otherwise   *)
(* unchanged; that frame builds the primary object's matrix with the new   *)
(* order.  No other step changes the order, so it stays until a frame      *)
(* runs with a toggle key held, also after the key is released.            *)
(***************************************************************************)
C6_ToggleLastCheckWins ==
    [][/\ FrameStep =>
             /\ modelState'.order =
                    IF "3" \in keys THEN "SRT"
                    ELSE IF "2" \in keys THEN "RTS"
                    ELSE IF "1" \in keys THEN "TRS"
                    ELSE modelState.order
             /\ OrderOf(cmds'[3].data.model) = modelState'.order
       /\ ~FrameStep => modelState'.order = modelState.order
       /\ (keys \cap ToggleKeys = {}) => modelState'.order = modelState.order]_vars

C6_Witness ==
    /\ modelState.order = "RTS"
    /\ keys \cap ToggleKeys = {}
    /\ OrderOf(cmds[3].data.model) = "RTS"
    /\ dt = 0
    /\ lastTime = 50

(***************************************************************************)
(* C7.  The frame loop is Idle until start-up schedules the first frame    *)
(* and Running from then on: the loop starts at most once, from the end of *)
(* start-up, and Running is never left.  Every frame schedules exactly one *)
(* next frame, so exactly one frame callback is pending while Running and  *)
(* none before, and under a fair host scheduler a further frame always     *)
(* eventually runs, whatever key events occur.                             *)
(***************************************************************************)
LoopState == IF pc = "running" THEN "Running" ELSE "Idle"

C8_SpawnOrderIsTRS ==
    [][Len(cubes') > Len(cubes) =>
          /\ cubes'[Len(cubes')].order = "TRS"
          /\ modelState' = modelState]_vars

\* the last cube was not drawn by the latest frame, which already ran with order RTS
C8_Witness ==
    /\ modelState.order = "RTS"
    /\ "2" \in keys
    /\ cmds # <<>>
    /\ Len(cubes) = 2
    /\ Cardinality(DrawIdx(cmds)) = 2
    /\ cubes[2].order = "TRS"

(***************************************************************************)
(* C9.  A texture fetch or decode failure stays inside                     *)
(* loadTextureOrCheckerboard: one fetch per slot, no retry, start-up moves *)
(* on to the next step, and the slot holds a 128 x 128 checkerboard whose  *)
(* pixel (x, y) is light (230, 230, 230, 255) exactly when the 16-pixel    *)
(* tiles of x and y have different parity and dark (35, 35, 35, 255)       *)
(* otherwise: (0, 0) and (16, 16) dark, (16, 0) and (0, 16) light.  Each   *)
(* slot falls back on its own, and whatever the earlier slots did, the     *)
(* next load can succeed or fail and start-up can reach the frame loop.    *)
(***************************************************************************)
Failed(i) == outcome[i] \notin {"none", "ok"}
LightPixel == <<230, 230, 230, 255>>
DarkPixel == <<35, 35, 35, 255>>
StagesAfter(i) ==
    IF i = 0 THEN {"tex1", "tex2", "setup", "running"}
    ELSE IF i = 1 THEN {"tex2", "setup", "running"}
    ELSE {"setup", "running"}

CheckerboardOf(tex) ==
    /\ tex.kind = "checker"
    /\ tex.w = 128
    /\ tex.h = 128
    /\ \A x \in 0 .. 127, y \in 0 .. 127 :
          TexturePixel(tex, x, y) =
              IF ((x \div 16) % 2 = 1) # ((y \div 16) % 2 = 1) THEN LightPixel ELSE DarkPixel
    /\ TexturePixel(tex, 0, 0) = DarkPixel
    /\ TexturePixel(tex, 16, 16) = DarkPixel
    /\ TexturePixel(tex, 16, 0) = LightPixel
    /\ TexturePixel(tex, 0, 16) = LightPixel

C9_FallbackIsLocal ==
    /\ \A i \in Slots :
          /\ fetchCount[i] <= 1
          /\ Failed(i) => /\ fetchCount[i] = 1
                          /\ pc \in StagesAfter(i)
                          /\ textures[i].kind = "checker"
          /\ outcome[i] = "ok" => /\ textures[i].kind = "image"
                                  /\ pc \in StagesAfter(i)
          /\ pc = SlotPc(i) => \A o \in Outcomes : ENABLED loadTexture(i, o)
    /\ (\E i \in Slots : Failed(i)) =>
          CheckerboardOf(textures[CHOOSE i \in Slots : Failed(i)])
    /\ pc = "setup" => ENABLED Setup
    /\ pc = "running" => ENABLED FrameStep

C9_Witness ==
    /\ pc = "running"
    /\ cmds # <<>>
    /\ outcome = [i \in Slots |-> IF i = 1 THEN "ok" ELSE IF i = 0 THEN "decodeError" ELSE "fetchError"]
    /\ textures[0].kind = "checker"
    /\ textures[1].kind = "image"
    /\ textures[2].kind = "checker"

(***************************************************************************)
(* C10.  No object is observable half-initialized: whenever a frame can    *)
(* run, every spawned object has its own uniform storage and its own       *)
(* draw-binding over that storage, distinct from those of every other      *)
(* object and of the primary object, so the frame's guard on missing       *)
(* resources skips no draw.                                                *)
(***************************************************************************)
C10_NoHalfInitializedObject ==
    pc = "running" =>
        /\ \A j \in 1 .. Len(cubes) :
              /\ cubes[j].uniformBuffer # NoHandle
              /\ cubes[j].bindGroup # NoHandle
              /\ cubes[j].uniformBuffer \notin {uniformBuffer, vertexBuffer}
              /\ cubes[j].bindGroup.id # bindGroup.id
              /\ cubes[j].bindGroup.buffer = cubes[j].uniformBuffer
              /\ drawCube(cubes[j]) # <<>>
        /\ \A j, k \in 1 .. Len(cubes) :
              j # k => /\ cubes[j].uniformBuffer # cubes[k].uniformBuffer
                       /\ cubes[j].bindGroup.id # cubes[k].bindGroup.id

C10_Witness ==
    /\ pc = "running"
    /\ Len(cubes) = 2
    /\ cubes[2].uniformBuffer = [id |-> 4]
    /\ Cardinality(DrawIdx(cmds)) = 3

====
